---- MODULE Spec2Model ----
(***************************************************************************)
(* Model of yaff's Ewald kernels (src/yaff/ewald.c):                       *)
(*   compute_ewald_reci  - reciprocal-space sum, modelled one wavevector   *)
(*                         (one innermost loop iteration) per step;        *)
(*   compute_ewald_corr  - self term and scaling corrections, one call per *)
(*                         step.                                           *)
(*                                                                         *)
(* Numbers.  A C double is modelled as <<n>> (the value n, an integer in a *)
(* fixed-point unit) or <<>> (NaN, the result of 0/0).  Arithmetic on      *)
(* finite values is exact; rounding is not modelled.  Units:               *)
(*   - positions, lattice vectors: integers;                               *)
(*   - scale: multiples of 1/ScaleDen, so (1-s) is (ScaleDen - s)/ScaleDen;*)
(*   - libm values (erf, exp): multiples of 1/FixOne, tabulated;           *)
(*   - corr energy, gpos, vtens: multiples of 1/(ScaleDen*FixOne);         *)
(*   - gvecs: the variable holds CellSide*gvecs, so that the phase k.r is  *)
(*     a whole number of quarter turns and cos, sin are exactly -1, 0, 1;  *)
(*     a wavevector k is held as kk with k = (2*pi/CellSide)*kk.           *)
(***************************************************************************)
EXTENDS Integers, Sequences, FiniteSets, TLC

\* ---------------------------------------------------------------- bounds
NAtom == 3
GMax == 1

\* ------------------------------------------------------- fixed-point units
ScaleDen == 2
FixOne == 1000
\* 1/M_SQRT_PI in units of 1/FixOne
InvSqrtPi == 564
\* side of the cubic cell: rvecs = CellSide*I, gvecs = G/CellSide
CellSide == 4

Atoms == 0 .. (NAtom - 1)
Axes == 0 .. 2
\* a NULL gpos, vtens pointer
NULL == <<>>

\* ------------------------------------------------------------- doubles
NaN == <<>>
Fin(n) == <<n>>
IsNaN(a) == a = NaN
DAdd(a, b) == IF IsNaN(a) \/ IsNaN(b) THEN NaN ELSE Fin(a[1] + b[1])
DSub(a, b) == IF IsNaN(a) \/ IsNaN(b) THEN NaN ELSE Fin(a[1] - b[1])
DMul(a, b) == IF IsNaN(a) \/ IsNaN(b) THEN NaN ELSE Fin(a[1] * b[1])
DNeg(a) == IF IsNaN(a) THEN NaN ELSE Fin(-a[1])

\* erf(d)/d for d = sqrt(dsq), dsq = 1..12, in units of 1/FixOne
ErfOverD == <<843, 675, 569, 498, 447, 408, 378, 354, 333, 316, 302, 289>>
\* (2/sqrt(pi)*exp(-d*d) - erf(d)/d)/(d*d), same range and unit
DerivTab == <<-428, -261, -171, -119, -88, -68, -54, -44, -37, -32, -27, -24>>
\* (2*pi/V)*exp(-ksq/4)/ksq for ksq = (pi/2)^2*n, V = CellSide^3, n = 1..10,
\* in units of 1/(100*FixOne); it rounds to 0 beyond
CoefTab == <<2147, 579, 208, 84, 36, 16, 8, 4, 2, 1>>

\* libm: pot = erf(x)/d with x = alpha*d.  erf is odd, erf(0) = 0, and 0/0
\* is NaN.  alpha ranges over -1, 0, 1.
Pot(a, dsq) == IF dsq = 0 THEN NaN ELSE Fin(a * ErfOverD[dsq])

\* (M_TWO_DIV_SQRT_PI*alpha*exp(-x*x) - pot)/d/d
Deriv(a, dsq) == IF dsq = 0 THEN NaN ELSE Fin(a * DerivTab[dsq])

\* cos and sin of a whole number n of quarter turns
CosQ(n) == CASE n % 4 = 0 -> 1 [] n % 4 = 2 -> -1 [] OTHER -> 0
SinQ(n) == CASE n % 4 = 1 -> 1 [] n % 4 = 3 -> -1 [] OTHER -> 0

\* c = fac1*exp(-ksq*fac2)/ksq with fac2 = 0.25/alpha/alpha: for alpha = 0,
\* fac2 is +inf and exp(-inf) = 0; alpha and -alpha give the same fac2.
Coef(a, n) == IF a = 0 \/ n > Len(CoefTab) THEN 0 ELSE CoefTab[n]

\* minimum image of one component in a cubic cell: into (-L/2, L/2]
Mic1(x) == LET r == x % CellSide
           IN IF 2 * r > CellSide THEN r - CellSide ELSE r
mic(delta) == [a \in Axes |-> Mic1(delta[a])]

VARIABLES
  fn,         \* which kernel this run exercises: "corr" or "reci"
  pos,        \* double *pos: flat, 3 per atom
  charges,    \* double *charges
  alpha,      \* double alpha
  scaling,    \* corr: per center atom, the scaling rows passed with it
  gpos,       \* double *gpos: NULL or flat, 3 per atom
  vtens,      \* double *vtens: NULL or flat 3x3
  gpos0,      \* gpos before the first call
  vtens0,     \* vtens before the first call
  gposPrev,   \* gpos before the last completed call
  vtensPrev,  \* vtens before the last completed call
  center,     \* corr: center_index of the last completed call, -1 if none
  ret,        \* value returned by the last completed call
  failure,    \* how the last completed call ended ("none": it returned)
  ncalls,     \* corr: number of completed calls per center_index
  applied,    \* corr: per <<center, other>>, how often the pair was processed
  gvecs,      \* reci: CellSide*gvecs, flat 3x3
  gmax,       \* reci: long *gmax
  pc,         \* reci: "entry", "loop", "done"; "idle" in corr runs
  j,          \* reci: the loop counters <<j0, j1, j2>>
  energy,     \* reci: the local energy
  work,       \* reci: double *work, each entry with the wavevector it was
              \*       written for ("stale": not written by this call)
  klog,       \* reci: the triples that contributed, in order
  skiplog,    \* reci: the triples that were skipped by continue
  staleRead,  \* reci: whether the gradient loop read an entry not written
              \*       for the current wavevector
  zero,       \* reci: the same call run on an all-zero gpos
  permE       \* reci: per permutation of the atoms, the local energy of the
              \*       same call run on the permuted pos and charges

vars == <<fn, pos, charges, alpha, scaling, gpos, vtens, gpos0, vtens0,
          gposPrev, vtensPrev, center, ret, failure, ncalls, applied,
          gvecs, gmax, pc, j, energy, work, klog, skiplog, staleRead,
          zero, permE>>

\* --------------------------------------------------- compute_ewald_corr
\* squared length of the minimum-image displacement from atom o to atom c
Delta(p, c, o) == mic([a \in Axes |-> p[3 * c + a] - p[3 * o + a]])
Dsq(p, c, o) == LET d == Delta(p, c, o)
                IN d[0] * d[0] + d[1] * d[1] + d[2] * d[2]

\* line 97 with s for (1-s)
FacScale(q, c, o, s) == s * q[o] * q[c]

\* fac = (1-s)*charges[other_index]*charges[center_index]
Fac(q, c, o, s) == (ScaleDen - s) * q[o] * q[c]

\* the self term alpha/M_SQRT_PI*charges[center_index]^2
SelfTerm(q, a, c) == Fin(ScaleDen * InvSqrtPi * a * q[c] * q[c])

\* the comparison of line 89 with > for >=
SkippedStrict(other_index, center_index) == other_index > center_index

\* line 89: the entry is skipped
Skipped(other_index, center_index) == other_index >= center_index

\* lines 101-107 with += on the other atom too
CorrGposSameSign(gp, c, o, delta, g) ==
  IF gp = NULL THEN NULL
  ELSE LET g1 == [gp EXCEPT ![3 * c] = DAdd(@, DMul(Fin(delta[0]), g)),
                            ![3 * c + 1] = DAdd(@, DMul(Fin(delta[1]), g)),
                            ![3 * c + 2] = DAdd(@, DMul(Fin(delta[2]), g))]
       IN [g1 EXCEPT ![3 * o] = DAdd(@, DMul(Fin(delta[0]), g)),
                     ![3 * o + 1] = DAdd(@, DMul(Fin(delta[1]), g)),
                     ![3 * o + 2] = DAdd(@, DMul(Fin(delta[2]), g))]

\* lines 101-107
CorrGpos(gp, c, o, delta, g) ==
  IF gp = NULL THEN NULL
  ELSE LET g1 == [gp EXCEPT ![3 * c] = DAdd(@, DMul(Fin(delta[0]), g)),
                            ![3 * c + 1] = DAdd(@, DMul(Fin(delta[1]), g)),
                            ![3 * c + 2] = DAdd(@, DMul(Fin(delta[2]), g))]
       IN [g1 EXCEPT ![3 * o] = DSub(@, DMul(Fin(delta[0]), g)),
                     ![3 * o + 1] = DSub(@, DMul(Fin(delta[1]), g)),
                     ![3 * o + 2] = DSub(@, DMul(Fin(delta[2]), g))]

\* lines 109-119 with = for += at lines 110-112
CorrVtensAssign(vt, delta, g) ==
  IF vt = NULL THEN NULL
  ELSE [n \in 0 .. 8 |->
          IF n < 3 THEN DMul(Fin(delta[n % 3] * delta[n \div 3]), g)
          ELSE DAdd(vt[n], DMul(Fin(delta[n % 3] * delta[n \div 3]), g))]

\* lines 109-119 with delta[1]*delta[1] at line 111
CorrVtensSlip(vt, delta, g) ==
  IF vt = NULL THEN NULL
  ELSE [n \in 0 .. 8 |->
          DAdd(vt[n], DMul(Fin(delta[n % 3] * delta[IF n = 1 THEN 1 ELSE n \div 3]), g))]

\* lines 109-119: vtens[3*b+a] += delta[a]*delta[b]*g
CorrVtens(vt, delta, g) ==
  IF vt = NULL THEN NULL
  ELSE [n \in 0 .. 8 |->
          DAdd(vt[n], DMul(Fin(delta[n % 3] * delta[n \div 3]), g))]

\* one iteration of the scaling loop, lines 87-120
CorrRow(st, p, c, q, a, row) ==
  LET other_index == row.i
      s == row.scale
  IN IF Skipped(other_index, c) THEN st
     ELSE LET delta == Delta(p, c, other_index)
              dsq == Dsq(p, c, other_index)
              pot == Pot(a, dsq)
              fac == Fin(Fac(q, c, other_index, s))
              g == DNeg(DMul(fac, Deriv(a, dsq)))
          IN [energy |-> DSub(st.energy, DMul(fac, pot)),
              gpos |-> CorrGpos(st.gpos, c, other_index, delta, g),
              vtens |-> CorrVtens(st.vtens, delta, g),
              pairs |-> Append(st.pairs, other_index)]

RECURSIVE CorrLoop(_, _, _, _, _, _, _)
CorrLoop(i, st, p, c, q, a, rows) ==
  IF i > Len(rows) THEN st
  ELSE CorrLoop(i + 1, CorrRow(st, p, c, q, a, rows[i]), p, c, q, a, rows)

\* line 84 with += for -=
CorrEnergy0Plus(q, a, c) == DAdd(Fin(0), SelfTerm(q, a, c))

\* energy at line 84, before the loop
CorrEnergy0(q, a, c) == DSub(Fin(0), SelfTerm(q, a, c))

\* the whole call; pairs lists the other_index of each processed entry
compute_ewald_corr(p, c, q, a, rows, gp, vt) ==
  CorrLoop(1, [energy |-> CorrEnergy0(q, a, c), gpos |-> gp, vtens |-> vt,
               pairs |-> <<>>],
           p, c, q, a, rows)

\* ------------------------------------------------------------- inputs
\* Configurations: a generic one, a planar one, one with coinciding atoms
\* and one where an atom sits on a periodic image of another.
PosOf(cfg, i) ==
  CASE cfg = "spread" -> <<i, 2 * i, 3 * i>>
    [] cfg = "planar" -> <<i * i, i, 0>>
    [] cfg = "coincident" -> <<i \div 2, 0, 0>>
    [] cfg = "image" -> <<CellSide * (i % 2) + (i \div 2), 1, 0>>
PosConfigs ==
  {[n \in 0 .. (3 * NAtom - 1) |-> PosOf(cfg, n \div 3)[(n % 3) + 1]] :
     cfg \in {"spread", "planar", "coincident", "image"}}

\* charges 1, -1, 2, -2, ...
ChargeConfigs ==
  {[i \in Atoms |-> IF i % 2 = 0 THEN (i \div 2) + 1 ELSE -((i \div 2) + 1)]}

Alphas == {-1, 0, 1}

\* scaling tables: which atoms o the list of atom c names, and with what scale
\* (in units of 1/ScaleDen: 0, 1/2 or 1)
Lists(kind, c, o) ==
  CASE kind = "empty" -> FALSE
    [] kind \in {"sym0", "sym1", "sym2", "mixed"} -> o # c
    [] kind \in {"self0", "self2"} -> TRUE
    [] kind \in {"lower", "dup"} -> o < c
    [] kind = "upper" -> o > c
ScaleOf(kind, c, o) ==
  CASE kind \in {"sym0", "self0", "upper", "dup"} -> 0
    [] kind \in {"sym1", "lower"} -> 1
    [] kind \in {"sym2", "self2"} -> 2
    [] kind = "mixed" -> (c + o) % (ScaleDen + 1)
    [] OTHER -> 0
RECURSIVE RowsFrom(_, _, _)
RowsFrom(kind, c, o) ==
  IF o >= NAtom THEN <<>>
  ELSE (IF Lists(kind, c, o)
          THEN <<[i |-> o, scale |-> ScaleOf(kind, c, o)]>> ELSE <<>>)
       \o RowsFrom(kind, c, o + 1)
Reverse(sq) == [n \in 1 .. Len(sq) |-> sq[Len(sq) + 1 - n]]
TableOf(kind) ==
  [c \in Atoms |->
     CASE kind = "dup" -> RowsFrom(kind, c, 0) \o RowsFrom(kind, c, 0)
       [] kind = "mixed" -> Reverse(RowsFrom(kind, c, 0))
       [] OTHER -> RowsFrom(kind, c, 0)]
Tables ==
  {TableOf(kind) : kind \in {"empty", "sym0", "sym1", "sym2", "mixed",
                             "self0", "self2", "lower", "upper", "dup"}}

ZeroG == [n \in 0 .. (3 * NAtom - 1) |-> Fin(0)]
ZeroV == [n \in 0 .. 8 |-> Fin(0)]
SomeG == [n \in 0 .. (3 * NAtom - 1) |-> Fin(n + 1)]
SymV == [n \in 0 .. 8 |-> Fin((n % 3) + (n \div 3))]
AsymV == [n \in 0 .. 8 |-> Fin(n)]
CorrBuffers == {<<NULL, NULL>>, <<ZeroG, ZeroV>>, <<SomeG, SymV>>,
                <<SomeG, AsymV>>, <<ZeroG, NULL>>, <<NULL, SymV>>}

Pairs == Atoms \X Atoms
Count(sq, x) == Cardinality({n \in 1 .. Len(sq) : sq[n] = x})

ReciIdle ==
  /\ gvecs = <<>> /\ gmax = <<>> /\ pc = "idle" /\ j = <<>>
  /\ energy = Fin(0) /\ work = <<>> /\ klog = <<>> /\ skiplog = <<>>
  /\ staleRead = FALSE /\ zero = <<>> /\ permE = <<>>

InitCorr ==
  /\ fn = "corr"
  /\ pos \in PosConfigs
  /\ charges \in ChargeConfigs
  /\ alpha \in Alphas
  /\ scaling \in Tables
  /\ \E b \in CorrBuffers :
       /\ gpos = b[1] /\ gpos0 = b[1] /\ gposPrev = b[1]
       /\ vtens = b[2] /\ vtens0 = b[2] /\ vtensPrev = b[2]
  /\ center = -1
  /\ ret = Fin(0)
  /\ failure = "none"
  /\ ncalls = [c \in Atoms |-> 0]
  /\ applied = [k \in Pairs |-> 0]
  /\ ReciIdle

\* the caller calls compute_ewald_corr for center_index c with its rows, once
\* per atom, the atoms in any order
CorrCall(c) ==
  /\ fn = "corr"
  /\ ncalls[c] = 0
  /\ LET r == compute_ewald_corr(pos, c, charges, alpha, scaling[c],
                                 gpos, vtens)
     IN /\ gpos' = r.gpos
        /\ vtens' = r.vtens
        /\ ret' = r.energy
        /\ applied' = [k \in Pairs |->
                         IF k[1] = c THEN applied[k] + Count(r.pairs, k[2])
                         ELSE applied[k]]
  /\ failure' = "none"
  /\ gposPrev' = gpos
  /\ vtensPrev' = vtens
  /\ center' = c
  /\ ncalls' = [ncalls EXCEPT ![c] = @ + 1]
  /\ UNCHANGED <<fn, pos, charges, alpha, scaling, gpos0, vtens0, gvecs,
                 gmax, pc, j, energy, work, klog, skiplog, staleRead, zero,
                 permE>>


\* --------------------------------------------------- compute_ewald_reci
\* lines 43-45: k = M_TWO_PI*(j0*gvecs[a] + j1*gvecs[3+a] + j2*gvecs[6+a]),
\* held as kk with k = (2*pi/CellSide)*kk
KVec(G, jj) == [a \in Axes |-> jj[0] * G[a] + jj[1] * G[3 + a] + jj[2] * G[6 + a]]

\* line 46, in units of (2*pi/CellSide)^2
KSq(kk) == kk[0] * kk[0] + kk[1] * kk[1] + kk[2] * kk[2]

\* line 50, in quarter turns
Phase(p, kk, i) == kk[0] * p[3 * i] + kk[1] * p[3 * i + 1] + kk[2] * p[3 * i + 2]

\* line 42 with | for &
ZeroTripleOr(jj) == (jj[0] = 0) /\ ((jj[1] = 0) \/ (jj[2] = 0))

\* line 42: (j0==0)&&(j1==0)&(j2==0) parses as (j0==0) && ((j1==0) & (j2==0));
\* the operands of & are 0 or 1, so it is their conjunction
ZeroTriple(jj) == (jj[0] = 0) /\ ((jj[1] = 0) /\ (jj[2] = 0))

\* line 53 with = for +=
AccCosAssign(cosfac, c) == c
\* line 57 without the minus sign
WorkSinPlus(s) == 2 * s

\* line 53, line 54
AccCos(cosfac, c) == cosfac + c
AccSin(sinfac, s) == sinfac + s
\* line 56, line 57
WorkCos(c) == 2 * c
WorkSin(s) == -2 * s

\* lines 49-59; acc = [cosfac, sinfac, work]
RECURSIVE AtomLoop(_, _, _, _, _, _, _)
AtomLoop(i, acc, p, q, kk, jj, wantG) ==
  IF i >= NAtom THEN acc
  ELSE LET x == Phase(p, kk, i)
           c == q[i] * CosQ(x)
           s == q[i] * SinQ(x)
           w == IF wantG
                  THEN [acc.work EXCEPT ![2 * i] = [val |-> WorkCos(c), tag |-> jj],
                                        ![2 * i + 1] = [val |-> WorkSin(s), tag |-> jj]]
                  ELSE acc.work
       IN AtomLoop(i + 1,
                   [cosfac |-> AccCos(acc.cosfac, c),
                    sinfac |-> AccSin(acc.sinfac, s), work |-> w],
                   p, q, kk, jj, wantG)

\* line 64
GradX(c, cosfac, sinfac, wk, i) ==
  c * (cosfac * wk[2 * i + 1].val + sinfac * wk[2 * i].val)

\* lines 65-67
GradAdd(gp, kk, x, i) ==
  [gp EXCEPT ![3 * i] = DAdd(@, Fin(kk[0] * x)),
             ![3 * i + 1] = DAdd(@, Fin(kk[1] * x)),
             ![3 * i + 2] = DAdd(@, Fin(kk[2] * x))]

\* lines 63-68; acc = [gpos, stale]
RECURSIVE GradLoop(_, _, _, _, _, _, _, _)
GradLoop(i, acc, c, cosfac, sinfac, wk, kk, jj) ==
  IF i >= NAtom THEN acc
  ELSE GradLoop(i + 1,
                [gpos |-> GradAdd(acc.gpos, kk, GradX(c, cosfac, sinfac, wk, i), i),
                 stale |-> acc.stale \/ wk[2 * i + 1].tag # jj
                                     \/ wk[2 * i].tag # jj],
                c, cosfac, sinfac, wk, kk, jj)

\* line 61
EnergyAdd(e, c, cosfac, sinfac) ==
  DAdd(e, Fin(c * (cosfac * cosfac + sinfac * sinfac)))

\* the body of the innermost loop, lines 42-69; st = [energy, gpos, work, stale]
ReciBody(st, p, q, a, G, jj) ==
  IF ZeroTriple(jj) THEN st
  ELSE LET kk == KVec(G, jj)
           sums == AtomLoop(0, [cosfac |-> 0, sinfac |-> 0, work |-> st.work],
                            p, q, kk, jj, st.gpos # NULL)
           c == Coef(a, KSq(kk))
           grad == IF st.gpos # NULL
                     THEN GradLoop(0, [gpos |-> st.gpos, stale |-> st.stale], c,
                                   sums.cosfac, sums.sinfac, sums.work, kk, jj)
                     ELSE [gpos |-> st.gpos, stale |-> st.stale]
       IN [energy |-> EnergyAdd(st.energy, c, sums.cosfac, sums.sinfac),
           gpos |-> grad.gpos, work |-> sums.work, stale |-> grad.stale]

\* the three for statements, lines 39-41: the triple after jj, or <<>> when
\* the loops are exhausted
NextTriple(jj, gm) ==
  IF jj[2] < gm[2] THEN [jj EXCEPT ![2] = @ + 1]
  ELSE IF jj[1] < gm[1] THEN [jj EXCEPT ![1] = @ + 1, ![2] = -gm[2]]
  ELSE IF jj[0] < gm[0] THEN [a \in Axes |-> IF a = 0 THEN jj[0] + 1 ELSE -gm[a]]
  ELSE <<>>

\* the first triple: every loop runs from -gmax[d]; <<>> when some loop has no
\* iteration (a negative gmax[d])
FirstTriple(gm) ==
  IF \E a \in Axes : -gm[a] > gm[a] THEN <<>> ELSE [a \in Axes |-> -gm[a]]

Perms == {f \in [Atoms -> Atoms] : \A x, y \in Atoms : f[x] = f[y] => x = y}
PermPos(p, f) == [n \in 0 .. (3 * NAtom - 1) |-> p[3 * f[n \div 3] + (n % 3)]]
PermQ(q, f) == [i \in Atoms |-> q[f[i]]]

\* the workspace holds whatever an earlier call left in it
Work0 == [n \in 0 .. (2 * NAtom - 1) |-> [val |-> 7 + n, tag |-> <<>>]]

\* reciprocal lattices times CellSide: the cubic cell, and a sheared one
GvecsSet == {[n \in 0 .. 8 |-> IF n % 4 = 0 THEN 1 ELSE 0],
             [n \in 0 .. 8 |-> IF n % 4 = 0 \/ n = 3 THEN 1 ELSE 0]}
GmaxSet == [Axes -> 0 .. GMax] \cup {[a \in Axes |-> IF a = 1 THEN -1 ELSE 0]}
ReciBuffers == {NULL, SomeG}

CorrIdle ==
  /\ scaling = <<>> /\ vtens = NULL /\ vtens0 = NULL /\ vtensPrev = NULL
  /\ center = -1 /\ ncalls = <<>> /\ applied = <<>>

InitReci ==
  /\ fn = "reci"
  /\ pos \in PosConfigs
  /\ charges \in ChargeConfigs
  /\ alpha \in Alphas
  /\ gvecs \in GvecsSet
  /\ gmax \in GmaxSet
  /\ gpos \in ReciBuffers /\ gpos0 = gpos /\ gposPrev = gpos
  /\ pc = "entry"
  /\ j = <<>>
  /\ energy = Fin(0)
  /\ work = Work0
  /\ klog = <<>> /\ skiplog = <<>>
  /\ staleRead = FALSE
  /\ zero = [energy |-> Fin(0), gpos |-> IF gpos = NULL THEN NULL ELSE ZeroG,
             work |-> Work0, stale |-> FALSE]
  /\ permE = [f \in Perms |-> Fin(0)]
  /\ ret = Fin(0)
  /\ failure = "none"
  /\ CorrIdle

\* the call is at the given place
ReciAt(place) == fn = "reci" /\ pc = place

\* lines 36-39: energy = 0.0 and the loop counters' first values
ReciEntry ==
  /\ ReciAt("entry")
  /\ energy' = Fin(0)
  /\ j' = FirstTriple(gmax)
  /\ pc' = IF FirstTriple(gmax) = <<>> THEN "return" ELSE "loop"
  /\ UNCHANGED <<fn, pos, charges, alpha, scaling, gpos, vtens, gpos0, vtens0,
                 gposPrev, vtensPrev, center, ret, failure, ncalls, applied,
                 gvecs, gmax, work, klog, skiplog, staleRead, zero, permE>>

\* one iteration of the innermost loop and the loop steps that follow it
ReciIter ==
  /\ ReciAt("loop")
  /\ LET st == ReciBody([energy |-> energy, gpos |-> gpos, work |-> work,
                         stale |-> staleRead],
                        pos, charges, alpha, gvecs, j)
     IN /\ energy' = st.energy
        /\ gpos' = st.gpos
        /\ work' = st.work
        /\ staleRead' = st.stale
  /\ zero' = ReciBody(zero, pos, charges, alpha, gvecs, j)
  /\ permE' = [f \in Perms |->
                 ReciBody([energy |-> permE[f], gpos |-> NULL, work |-> Work0,
                           stale |-> FALSE],
                          PermPos(pos, f), PermQ(charges, f), alpha, gvecs,
                          j).energy]
  /\ klog' = IF ZeroTriple(j) THEN klog ELSE Append(klog, j)
  /\ skiplog' = IF ZeroTriple(j) THEN Append(skiplog, j) ELSE skiplog
  /\ j' = NextTriple(j, gmax)
  /\ pc' = IF NextTriple(j, gmax) = <<>> THEN "return" ELSE "loop"
  /\ UNCHANGED <<fn, pos, charges, alpha, scaling, vtens, gpos0, vtens0,
                 gposPrev, vtensPrev, center, ret, failure, ncalls, applied,
                 gvecs, gmax>>

\* line 73
ReciReturn ==
  /\ ReciAt("return")
  /\ ret' = energy
  /\ failure' = "none"
  /\ pc' = "done"
  /\ UNCHANGED <<fn, pos, charges, alpha, scaling, gpos, vtens, gpos0, vtens0,
                 gposPrev, vtensPrev, center, ncalls, applied, gvecs, gmax, j,
                 energy, work, klog, skiplog, staleRead, zero, permE>>

ReciStep == ReciEntry \/ ReciIter \/ ReciReturn

Init == InitCorr \/ InitReci
Next == (\E c \in Atoms : CorrCall(c)) \/ ReciStep
Spec == Init /\ [][Next]_vars

\* ------------------------------------------------------------ properties
RECURSIVE AxisSumFrom(_, _, _)
AxisSumFrom(g, a, i) ==
  IF i >= NAtom THEN Fin(0) ELSE DAdd(g[3 * i + a], AxisSumFrom(g, a, i + 1))
\* the sum over all atoms of gpos along axis a
AxisSum(g, a) == AxisSumFrom(g, a, 0)
BufAdd(x, y) == IF x = NULL THEN NULL ELSE [n \in DOMAIN x |-> DAdd(x[n], y[n])]
ZeroLike(x) == IF x = NULL THEN NULL ELSE [n \in DOMAIN x |-> Fin(0)]
\* the == of C on doubles: a NaN compares unequal to everything, itself included
DEq(x, y) == ~IsNaN(x) /\ ~IsNaN(y) /\ x = y
Symmetric(vt) == \A a, b \in Axes : DEq(vt[3 * a + b], vt[3 * b + a])

CorrCalled == fn = "corr" /\ center # -1
LastRows == scaling[center]
\* the atoms whose entries the last call processed
LastOthers == {o \in Atoms : o < center /\ \E n \in 1 .. Len(LastRows) : LastRows[n].i = o}
\* -alpha/sqrt(pi)*q_center^2 for the last call
SelfValue == Fin(-(ScaleDen * InvSqrtPi * alpha * charges[center] * charges[center]))
BuffersUntouched == gpos = gposPrev /\ vtens = vtensPrev
\* every pair processed so far has a nonzero minimum-image distance
NoZeroDistance == \A k \in Pairs : applied[k] > 0 => Dsq(pos, k[1], k[2]) # 0

Listing(c, o) == {n \in 1 .. Len(scaling[c]) : scaling[c][n].i = o}
SymmetricTable ==
  \A c, o \in Atoms :
    /\ Cardinality(Listing(c, o)) <= 1
    /\ \A n \in Listing(c, o) :
         \E m \in Listing(o, c) : scaling[o][m].scale = scaling[c][n].scale
AllCalledOnce == \A c \in Atoms : ncalls[c] = 1
BelowCenter(row) == row.i < center

\* C1: half-list rule.  The last call's energy, gpos and vtens are those of
\* the same call given only the entries with other_index < center_index; and
\* once every center has been called exactly once on a symmetric table, every
\* listed unordered pair {i,j}, i < j, has been processed exactly once, by
\* the call with center_index j, and nothing else has been processed.
C1_HalfList ==
  /\ CorrCalled =>
       LET r == compute_ewald_corr(pos, center, charges, alpha,
                                   SelectSeq(LastRows, BelowCenter),
                                   gposPrev, vtensPrev)
       IN ret = r.energy /\ gpos = r.gpos /\ vtens = r.vtens
  /\ (fn = "corr" /\ AllCalledOnce /\ SymmetricTable) =>
       \A i, k \in Atoms :
         applied[<<k, i>>] = IF i < k /\ Listing(k, i) # {} THEN 1 ELSE 0
C1_Witness ==
  /\ fn = "corr" /\ AllCalledOnce /\ SymmetricTable
  /\ \E i, k \in Atoms : i < k /\ applied[<<k, i>>] = 1 /\ Listing(i, k) # {}
  /\ \E c \in Atoms : Listing(c, c) # {}
  /\ gpos # NULL /\ gpos # gpos0

AllScaleOne == \A n \in 1 .. Len(LastRows) : LastRows[n].scale = ScaleDen
RECURSIVE PairEnergy(_)
\* the sum of fac*pot over the entries of rows with other_index < center_index
PairEnergy(rows) ==
  IF rows = <<>> THEN Fin(0)
  ELSE DAdd(IF rows[1].i < center
              THEN DMul(Fin(Fac(charges, center, rows[1].i, rows[1].scale)),
                        Pot(alpha, Dsq(pos, center, rows[1].i)))
              ELSE Fin(0),
            PairEnergy(Tail(rows)))
\* C4: self term.  The returned energy is -alpha/sqrt(pi)*q_center^2 minus the
\* pair terms of the processed entries, whatever the list; a call that
\* processes no entry (in particular one with no entries) returns exactly
\* -alpha/sqrt(pi)*q_center^2 and leaves gpos and vtens unchanged.
C4_SelfTerm ==
  CorrCalled =>
    /\ ret = DSub(SelfValue, PairEnergy(LastRows))
    /\ LastOthers = {} => (ret = SelfValue /\ BuffersUntouched)
C4_Witness ==
  /\ CorrCalled /\ LastRows = <<>>
  /\ alpha # 0 /\ charges[center] # 0
  /\ gpos # NULL /\ vtens # NULL /\ gpos # ZeroG

Box == {t \in [Axes -> -GMax .. GMax] : \A a \in Axes : -gmax[a] <= t[a] /\ t[a] <= gmax[a]}
ZeroT == [a \in Axes |-> 0]
NonNegGmax == \A a \in Axes : gmax[a] >= 0
\* the number of steps a compute_ewald_reci call still has to take
Remaining ==
  CASE pc = "entry" -> (2 * GMax + 1) * (2 * GMax + 1) * (2 * GMax + 1) + 2
    [] pc = "loop" ->
         (2 * gmax[0] + 1) * (2 * gmax[1] + 1) * (2 * gmax[2] + 1) + 1
         - (((j[0] + gmax[0]) * (2 * gmax[1] + 1) + (j[1] + gmax[1]))
              * (2 * gmax[2] + 1) + (j[2] + gmax[2]))
    [] pc = "return" -> 1
    [] OTHER -> 0
\* C7: k-space enumeration.  For non-negative gmax, when the call returns it
\* has run the loop body for every triple with |j_d| <= gmax[d] exactly once,
\* skipped (0,0,0) and only it, and added exactly
\* (2*gmax[0]+1)*(2*gmax[1]+1)*(2*gmax[2]+1) - 1 wavevectors to the energy;
\* with gmax = (0,0,0) the energy is 0 and gpos is unchanged.  The call
\* terminates: until it has returned it is at a place where a step (whose
\* only condition is that place) can be taken, and every step lowers the
\* number of steps left.
C7_Enumeration ==
  /\ []((fn = "reci" /\ pc = "done" /\ NonNegGmax) =>
          /\ \A t \in Box : Count(klog, t) = IF t = ZeroT THEN 0 ELSE 1
          /\ skiplog = <<ZeroT>>
          /\ Len(klog) = (2 * gmax[0] + 1) * (2 * gmax[1] + 1) * (2 * gmax[2] + 1) - 1
          /\ \A n \in 1 .. Len(klog) : klog[n] \in Box
          /\ gmax = ZeroT => (ret = Fin(0) /\ gpos = gpos0))
  /\ []((fn = "reci" /\ pc # "done") =>
          (ReciAt("entry") \/ ReciAt("loop") \/ ReciAt("return")))
  /\ [][fn = "reci" => (Remaining' < Remaining /\ Remaining' >= 0)]_vars
C7_Witness ==
  /\ fn = "reci" /\ pc = "done" /\ \A a \in Axes : gmax[a] = GMax
  /\ gpos # NULL /\ gpos # gpos0 /\ ret # Fin(0)

\* C8 as stated: a call with alpha <= 0 is reported as an InvalidParameter
\* failure and has not changed gpos or vtens.
C8_Original ==
  /\ (CorrCalled /\ alpha <= 0) =>
       (failure = "InvalidParameter" /\ BuffersUntouched)
  /\ (fn = "reci" /\ pc = "done" /\ alpha <= 0) =>
       (failure = "InvalidParameter" /\ gpos = gpos0)
\* C9: relabeling invariance.  The energy compute_ewald_reci returns is the
\* one it returns with pos and charges permuted by any permutation of the
\* atoms.
C9_Relabel ==
  (fn = "reci" /\ pc = "done") => \A f \in Perms : permE[f] = ret
C9_Witness ==
  /\ fn = "reci" /\ pc = "done" /\ ret # Fin(0)
  /\ \E f \in Perms : PermPos(pos, f) # pos /\ PermQ(charges, f) # charges
  /\ \A a \in Axes : gmax[a] = GMax

\* C10: zero net reciprocal force.  With gpos requested, the gradient loop
\* reads only workspace entries written for the current wavevector, every
\* entry written holds 2*q_i*cos or -2*q_i*sin of that wavevector's phase, and
\* for each axis the sum of gpos over all atoms stays what it was before the
\* call.
C10_ZeroNetForce ==
  (fn = "reci" /\ gpos # NULL) =>
    /\ ~staleRead
    /\ \A i \in Atoms :
         /\ work[2 * i].tag # <<>> =>
              work[2 * i].val =
                2 * charges[i] * CosQ(Phase(pos, KVec(gvecs, work[2 * i].tag), i))
         /\ work[2 * i + 1].tag # <<>> =>
              work[2 * i + 1].val =
                -2 * charges[i] * SinQ(Phase(pos, KVec(gvecs, work[2 * i + 1].tag), i))
    /\ \A a \in Axes : AxisSum(gpos, a) = AxisSum(gpos0, a)
C10_Witness ==
  /\ fn = "reci" /\ pc = "done" /\ gpos # NULL /\ gpos # gpos0
  /\ \A n \in DOMAIN work : work[n].tag # <<>>
  /\ Len(klog) > 1
====
